---- MODULE Spec2Model ----
(***************************************************************************)
(* ESP32-CAM terminal (AutoTrackingAprilTagSmartCar_Group6, src/main.cpp): *)
(* the capture task (cameraTask) that publishes the latest JPEG into the   *)
(* frame cache and broadcasts it to the MJPEG clients, and the handlers of *)
(* the async network task (/mjpeg accept, onDisconnect, /jpg snapshot).    *)
(* The two contexts interleave step by step; the two FreeRTOS mutexes are  *)
(* modelled with their owners and their timeouts.                          *)
(***************************************************************************)
EXTENDS Integers, Sequences, FiniteSets, TLC

\* ---------------------------------------------------------------- bounds
\* Connections the server ever accepts on /mjpeg.
MaxConn == 2
\* Frames the sensor delivers before it only reports "no frame".
MaxFrames == 2
\* Longest encoded frame, in bytes.
MaxFrameLen == 2
\* millis() values the runs of the command gateway see: 0..MaxClock.
MaxClock == 1
\* Commands forwarded to the UNO after the Stop that setup sends.
MaxCmds == 2

\* ------------------------------------------------------ program constants
\* static const int CAPTURE_INTERVAL_MS = 50;
CAPTURE_INTERVAL_MS == 50
\* vTaskDelay(pdMS_TO_TICKS(5)) in cameraTask
DelayMs == 5
\* strlen of the stream prologue snprintf'ed into head[] by mjpeg_broadcast
PrologueLen == 117
\* strlen of the part header of mjpeg_send_frame_to without the %u digits
HdrFixedLen == 75
\* client->add("\r\n", 2)
TrailerLen == 2

\* ----------------------------------------------------------------- state
VARIABLES
  camPc,            \* cameraTask: position in the loop body
  elapsed,          \* cameraTask: now - last, saturating at CAPTURE_INTERVAL_MS
  fb,               \* cameraTask: the camera_fb_t it holds (frame id), 0 = none
  bi,               \* mjpeg_broadcast: loop index (i of the cleanup loop, then of the send loop)
  cpy,              \* cameraTask: next byte of the memcpy into g_last_jpg
  captured,         \* the JPEG frames esp_camera_fb_get has returned: id -> [len]
  g_last_jpg,       \* the cache buffer (Null = nullptr)
  g_last_jpg_len,   \* its recorded length
  g_jpg_mutex,      \* owner of g_jpg_mutex
  g_clients,        \* std::vector<MjpegClient>
  g_clients_mutex,  \* owner of g_clients_mutex
  heap,             \* every AsyncClient object: none / live / freed / dfreed (deleted twice)
  conn,             \* every TCP connection: none / open / closing (closed, callback due) / closed
  netPc,            \* async network task: position in the handler it runs
  netC,             \* onDisconnect: the AsyncClient* c it was called with
  snapOut,          \* copy_last_jpg: the vector out
  snapOk,           \* copy_last_jpg: ok
  snapI,            \* copy_last_jpg: next byte of its memcpy
  snapFb,           \* handle_jpg: whether it holds a camera_fb_t of its own capture
  snapResp,         \* handle_jpg: the status code it answered with, 0 = none yet
  out,              \* per connection, what the peer was sent: <<kind, frame, bytes>>
  lastSend,         \* the broadcast pass of this tick: its last client turn (space seen,
                    \* what it wrote), the clients its send loop found not connected,
                    \* whether it was skipped
  published,        \* ids of the frames whose publish completed
  pre,              \* the cache as it was when the running publish took the lock
  pubRes,           \* outcome of the running publish section: none / ok / nomem
  g_last_motion,    \* /status: last motion forwarded
  g_last_speed,     \* /status: last speed forwarded
  g_last_cmd_ms,    \* /status: millis() of the last accepted command
  now,              \* millis()
  Serial1Last,      \* the last line written to Serial1 (the UART to the UNO)
  Serial1Lines,     \* how many lines were written to Serial1
  tempObject,       \* request->_tempObject of the /cmd request in flight (String* body)
  cmdRest,          \* the part of that request's body that has not arrived yet
  cmdIn,            \* the body of that request as the client sent it
  cmdResp,          \* the status code that request was answered with, 0 = none yet
  irPc,             \* IR receiver, the sketch: position inside resume() or enableIRIn()
  timerIntr,        \* IR receiver: whether the timer interrupt is enabled
  rcvstate,         \* irparams.rcvstate
  rawlen,           \* irparams.rawlen
  timer,            \* irparams.timer
  rawbufIdx,        \* the index of irparams.rawbuf the last run of the interrupt
                    \* handler stored at, -1 if it stored nothing
  resultsRawlen,    \* IRrecv::decode: results->rawlen while the call runs
  decodeRet,        \* what the last call of IRrecv::decode returned
  pins,             \* motor driver: the level or PWM duty last written to each pin
  moveCall,         \* the last call made to the motor code and its arguments
  branch            \* the case labels control() took for motor A and for motor B

camV   == <<camPc, elapsed, fb, bi, cpy>>
cacheV == <<g_last_jpg, g_last_jpg_len>>
pubV   == <<published, pre, pubRes>>
regV   == <<g_clients, heap>>
snapV  == <<snapOut, snapOk, snapI, snapFb, snapResp>>
netV   == <<netPc, netC>>
lastV  == <<g_last_motion, g_last_speed, g_last_cmd_ms>>
uartV  == <<Serial1Last, Serial1Lines>>
reqV   == <<tempObject, cmdRest, cmdIn, cmdResp>>
cmdV   == <<lastV, now, uartV, reqV>>
decV   == <<resultsRawlen, decodeRet>>
irV    == <<irPc, timerIntr, rcvstate, rawlen, timer, rawbufIdx, decV>>
\* everything on the ESP32-CAM
espV   == <<camV, captured, cacheV, g_jpg_mutex, regV, g_clients_mutex, conn,
           netV, snapV, out, lastSend, pubV, cmdV>>
moveV  == <<pins, moveCall, branch>>
vars   == <<espV, irV, moveV>>

\* ----------------------------------------------------------- value spaces
Null  == <<>>
NullH == 0
\* fb of a frame that is not PIXFORMAT_JPEG
OtherFb == -1
\* DeviceDriverSet_Motor::init: the pins are outputs, nothing written to them yet
PinsAfterInit == [STBY |-> "LOW", AIN1 |-> "LOW", BIN1 |-> "LOW", PWMA |-> 0, PWMB |-> 0]
\* no call of controlRobotMotion or control yet
NoCall == [fn |-> "none", motion |-> "none", speed |-> 0]
\* control() did not get to the switch
NoBranch == "none"
\* IRrecv::decode has not returned yet
NoRet == -1
Conns == 1..MaxConn
\* request->client(), the AsyncClient the server made for connection k
Orig(k)  == k
\* new AsyncClient(*client), the copy the registry keeps for connection k
Clone(k) == MaxConn + k
Handles  == 1..(2 * MaxConn)
ConnOf(h) == IF h > MaxConn THEN h - MaxConn ELSE h
FrameLens == 1..MaxFrameLen

\* Byte i of frame f; 0 is a byte nobody wrote (malloc'ed or resize()d storage).
FrameByte(f, i) == 10 * f + i
Junk == 0
FrameBytes(f, n) == [i \in 1..n |-> FrameByte(f, i)]

RECURSIVE Digits(_)
\* printf("%u", n): how many characters
Digits(n) == IF n < 10 THEN 1 ELSE 1 + Digits(n \div 10)
\* hdrlen = snprintf(hdr, ..., "--%s\r\nContent-Type: image/jpeg\r\nContent-Length: %u\r\n\r\n", ...)
HdrLen(len) == HdrFixedLen + Digits(len)
UnitLen(len) == HdrLen(len) + len + TrailerLen

\* client->space() as the network stack may report it when a client's turn begins
SpaceLevels ==
  {0, UnitLen(MaxFrameLen) - 1,
   PrologueLen + UnitLen(MaxFrameLen) - 1, PrologueLen + UnitLen(MaxFrameLen)}

Min(a, b) == IF a < b THEN a ELSE b

NoSend == [k |-> 0, f |-> 0, live |-> FALSE, space |-> 0, wrote |-> <<>>,
           dead |-> {}, skipped |-> FALSE]

NoPre == [buf |-> Null, len |-> 0]

\* ---------------------------------------------------------------- JSON text
\* Text is a sequence of JSON tokens: punctuation, a quoted string, an integer.
P(c) == [t |-> "p", s |-> c, n |-> 0]
S(x) == [t |-> "s", s |-> x, n |-> 0]
N(i) == [t |-> "n", s |-> "", n |-> i]

\* send_to_uno: serializeJson of { "M": motion, "v": speed }, then print('\n')
WireLine(motion, speed) ==
  << P("{"), S("M"), P(":"), S(motion), P(","), S("v"), P(":"), N(speed), P("}"),
     P("\n") >>

\* request->_tempObject == nullptr
NoTemp == [set |-> FALSE, s |-> <<>>]

Init ==
  /\ camPc = "Loop"
  /\ elapsed = CAPTURE_INTERVAL_MS
  /\ fb = 0
  /\ bi = 0
  /\ cpy = 0
  /\ captured = <<>>
  /\ g_last_jpg = Null
  /\ g_last_jpg_len = 0
  /\ g_jpg_mutex = "free"
  /\ g_clients = <<>>
  /\ g_clients_mutex = "free"
  /\ heap = [h \in Handles |-> "none"]
  /\ conn = [k \in Conns |-> "none"]
  /\ netPc = "Idle"
  /\ netC = NullH
  /\ snapOut = <<>>
  /\ snapOk = FALSE
  /\ snapI = 0
  /\ snapFb = FALSE
  /\ snapResp = 0
  /\ out = [k \in Conns |-> <<>>]
  /\ lastSend = NoSend
  /\ published = {}
  /\ pre = NoPre
  /\ pubRes = "none"
  /\ g_last_motion = "Stop"
  /\ g_last_speed = 0
  /\ g_last_cmd_ms = 0
  /\ now = 0
  /\ Serial1Last = WireLine("Stop", 0)
  /\ Serial1Lines = 1
  /\ tempObject = NoTemp
  /\ cmdRest = <<>>
  /\ cmdIn = <<>>
  /\ cmdResp = 0
  /\ irPc = "Run"
  /\ timerIntr = FALSE
  /\ rcvstate = 0
  /\ rawlen = 0
  /\ timer = 0
  /\ rawbufIdx = -1
  /\ resultsRawlen = 0
  /\ decodeRet = NoRet
  /\ pins = PinsAfterInit
  /\ moveCall = NoCall
  /\ branch = <<NoBranch, NoBranch>>

\* ------------------------------------------------- AsyncClient operations
\* c->connected(): the state of c's connection; on a deleted object the read is
\* undefined and may give either answer.
ConnectedResults(h) ==
  IF h = NullH THEN {FALSE}
  ELSE IF heap[h] = "live" THEN {conn[ConnOf(h)] = "open"} ELSE BOOLEAN

\* delete c (after c->close(true)): a second delete of the same object is recorded.
Delete(hp, h) ==
  [hp EXCEPT ![h] = IF @ = "live" THEN "freed" ELSE "dfreed"]

\* client->add(data, n) with `space` bytes free: how many bytes the stack takes.
Accepted(n, space) == Min(n, space)

\* the cleanup loop's test with the connected() answer taken the wrong way round
Dead_Inverted(h, alive) == h = NullH \/ alive

\* the cleanup loop's test: !g_clients[i].c || !g_clients[i].c->connected()
Dead(h, alive) == h = NullH \/ ~alive

\* mjpeg_send_frame_to testing the space for the part header and trailer only
FrameWrites_NoPayload(alive, f, len, space) ==
  IF ~alive \/ f = 0 \/ len = 0 THEN <<>>
  ELSE IF space >= HdrLen(len) + TrailerLen
       THEN << <<"hdr", f, HdrLen(len)>>, <<"jpg", f, len>>, <<"crlf", f, TrailerLen>> >>
       ELSE <<>>

\* mjpeg_send_frame_to(client, jpg, len): what it adds to the connection, given
\* the answers of connected() and space().
FrameWrites(alive, f, len, space) ==
  IF ~alive \/ f = 0 \/ len = 0 THEN <<>>
  ELSE IF space >= HdrLen(len) + len + TrailerLen
       THEN << <<"hdr", f, HdrLen(len)>>, <<"jpg", f, len>>, <<"crlf", f, TrailerLen>> >>
       ELSE <<>>

\* the one-time prologue of mjpeg_broadcast: add(head, n) without a space check
PrologueWrites(headerSent, space) ==
  IF ~headerSent /\ Accepted(PrologueLen, space) > 0
  THEN << <<"pro", 0, Accepted(PrologueLen, space)>> >>
  ELSE <<>>

RemoveAt(s, i) == [j \in 1..(Len(s) - 1) |-> IF j < i THEN s[j] ELSE s[j + 1]]

\* --------------------------------------------------------------- cameraTask
\* The delays after which now - last first reaches CAPTURE_INTERVAL_MS.
RECURSIVE WaitUntilDue(_)
WaitUntilDue(e) ==
  IF e < CAPTURE_INTERVAL_MS THEN WaitUntilDue(e + DelayMs) ELSE e

\* while now - last < CAPTURE_INTERVAL_MS: vTaskDelay(5); continue. The iterations
\* touch nothing but the clock and are taken as one step.
CamRateLimit ==
  /\ camPc = "Loop"
  /\ elapsed < CAPTURE_INTERVAL_MS
  /\ elapsed' = Min(CAPTURE_INTERVAL_MS, WaitUntilDue(elapsed))
  /\ UNCHANGED <<camPc, fb, bi, cpy, captured, cacheV, g_jpg_mutex, regV,
                 g_clients_mutex, conn, netV, snapV, out, lastSend, pubV, cmdV, irV, moveV>>

\* last = now; then esp_camera_fb_get() is called
CamTickStart ==
  /\ camPc = "Loop"
  /\ elapsed >= CAPTURE_INTERVAL_MS
  /\ elapsed' = 0
  /\ camPc' = "Get"
  /\ UNCHANGED <<fb, bi, cpy, captured, cacheV, g_jpg_mutex, regV,
                 g_clients_mutex, conn, netV, snapV, out, lastSend, pubV, cmdV, irV, moveV>>

\* esp_camera_fb_get() returns NULL: vTaskDelay(5); continue
CamGetNone ==
  /\ camPc = "Get"
  /\ camPc' = "Loop"
  /\ elapsed' = Min(CAPTURE_INTERVAL_MS, elapsed + DelayMs)
  /\ UNCHANGED <<fb, bi, cpy, captured, cacheV, g_jpg_mutex, regV,
                 g_clients_mutex, conn, netV, snapV, out, lastSend, pubV, cmdV, irV, moveV>>

\* esp_camera_fb_get() returns a frame with fb->format == PIXFORMAT_JPEG
CamGetFrame ==
  /\ camPc = "Get"
  /\ Len(captured) < MaxFrames
  /\ \E len \in FrameLens : captured' = Append(captured, [len |-> len])
  /\ fb' = Len(captured) + 1
  /\ camPc' = "PubTake"
  /\ UNCHANGED <<elapsed, bi, cpy, cacheV, g_jpg_mutex, regV,
                 g_clients_mutex, conn, netV, snapV, out, lastSend, pubV, cmdV, irV, moveV>>

\* a frame of another pixel format handed to mjpeg_broadcast all the same
CamGetOther_Broadcast ==
  /\ camPc = "Get"
  /\ fb' = OtherFb
  /\ camPc' = "BcTake"
  /\ UNCHANGED <<elapsed, bi, cpy, captured, cacheV, g_jpg_mutex, regV,
                 g_clients_mutex, conn, netV, snapV, out, lastSend, pubV, cmdV, irV, moveV>>

\* esp_camera_fb_get() returns a frame of another pixel format: neither publish
\* nor broadcast, only esp_camera_fb_return
CamGetOther ==
  /\ camPc = "Get"
  /\ fb' = OtherFb
  /\ camPc' = "Return"
  /\ UNCHANGED <<elapsed, bi, cpy, captured, cacheV, g_jpg_mutex, regV,
                 g_clients_mutex, conn, netV, snapV, out, lastSend, pubV, cmdV, irV, moveV>>

\* cameraTask entering its publish section without waiting for g_jpg_mutex
CamPubTake_NoWait ==
  /\ camPc = "PubTake"
  /\ g_jpg_mutex' = "cam"
  /\ camPc' = "PubFree"
  /\ pre' = [buf |-> g_last_jpg, len |-> g_last_jpg_len]
  /\ pubRes' = "none"
  /\ UNCHANGED <<elapsed, fb, bi, cpy, captured, cacheV, regV, g_clients_mutex,
                 conn, netV, snapV, out, lastSend, published, cmdV, irV, moveV>>

\* xSemaphoreTake(g_jpg_mutex, portMAX_DELAY): waits until the mutex is free
CamPubTake ==
  /\ camPc = "PubTake"
  /\ g_jpg_mutex = "free"
  /\ g_jpg_mutex' = "cam"
  /\ camPc' = "PubFree"
  /\ pre' = [buf |-> g_last_jpg, len |-> g_last_jpg_len]
  /\ pubRes' = "none"
  /\ UNCHANGED <<elapsed, fb, bi, cpy, captured, cacheV, regV, g_clients_mutex,
                 conn, netV, snapV, out, lastSend, published, cmdV, irV, moveV>>

\* the publish section freeing the old buffer without clearing g_last_jpg_len
CamPubFree_KeepLen ==
  /\ camPc = "PubFree"
  /\ IF g_last_jpg # Null
     THEN g_last_jpg' = Null /\ g_last_jpg_len' = g_last_jpg_len
     ELSE UNCHANGED cacheV
  /\ camPc' = "PubMalloc"
  /\ UNCHANGED <<elapsed, fb, bi, cpy, captured, g_jpg_mutex, regV, g_clients_mutex,
                 conn, netV, snapV, out, lastSend, pubV, cmdV, irV, moveV>>

\* if (g_last_jpg) { free(g_last_jpg); g_last_jpg = nullptr; g_last_jpg_len = 0; }
CamPubFree ==
  /\ camPc = "PubFree"
  /\ IF g_last_jpg # Null
     THEN g_last_jpg' = Null /\ g_last_jpg_len' = 0
     ELSE UNCHANGED cacheV
  /\ camPc' = "PubMalloc"
  /\ UNCHANGED <<elapsed, fb, bi, cpy, captured, g_jpg_mutex, regV, g_clients_mutex,
                 conn, netV, snapV, out, lastSend, pubV, cmdV, irV, moveV>>

\* g_last_jpg = malloc(fb->len): storage nobody wrote yet
CamPubMallocOk ==
  /\ camPc = "PubMalloc"
  /\ g_last_jpg' = [i \in 1..captured[fb].len |-> Junk]
  /\ cpy' = 1
  /\ camPc' = "PubCopy"
  /\ UNCHANGED <<elapsed, fb, bi, captured, g_last_jpg_len, g_jpg_mutex, regV,
                 g_clients_mutex, conn, netV, snapV, out, lastSend, pubV, cmdV, irV, moveV>>

\* g_last_jpg = malloc(fb->len) returns NULL: the if (g_last_jpg) body is skipped
CamPubMallocFail ==
  /\ camPc = "PubMalloc"
  /\ g_last_jpg' = Null
  /\ pubRes' = "nomem"
  /\ camPc' = "PubGive"
  /\ UNCHANGED <<elapsed, fb, bi, cpy, captured, g_last_jpg_len, g_jpg_mutex, regV,
                 g_clients_mutex, conn, netV, snapV, out, lastSend, published,
                 pre, cmdV, irV, moveV>>

\* memcpy(g_last_jpg, fb->buf, fb->len), one byte a step
CamPubCopy ==
  /\ camPc = "PubCopy"
  /\ g_last_jpg' = [g_last_jpg EXCEPT ![cpy] = FrameByte(fb, cpy)]
  /\ IF cpy < captured[fb].len
     THEN cpy' = cpy + 1 /\ camPc' = "PubCopy"
     ELSE cpy' = 0 /\ camPc' = "PubLen"
  /\ UNCHANGED <<elapsed, fb, bi, captured, g_last_jpg_len, g_jpg_mutex, regV,
                 g_clients_mutex, conn, netV, snapV, out, lastSend, pubV, cmdV, irV, moveV>>

\* g_last_jpg_len = fb->len
CamPubLen ==
  /\ camPc = "PubLen"
  /\ g_last_jpg_len' = captured[fb].len
  /\ published' = published \cup {fb}
  /\ pubRes' = "ok"
  /\ camPc' = "PubGive"
  /\ UNCHANGED <<elapsed, fb, bi, cpy, captured, g_last_jpg, g_jpg_mutex, regV,
                 g_clients_mutex, conn, netV, snapV, out, lastSend, pre, cmdV, irV, moveV>>

\* the publish section left without xSemaphoreGive(g_jpg_mutex)
CamPubGive_NoGive ==
  /\ camPc = "PubGive"
  /\ camPc' = "BcTake"
  /\ pre' = NoPre
  /\ pubRes' = "none"
  /\ UNCHANGED <<elapsed, fb, bi, cpy, captured, cacheV, g_jpg_mutex, regV,
                 g_clients_mutex, conn, netV, snapV, out, lastSend, published, cmdV, irV, moveV>>

\* xSemaphoreGive(g_jpg_mutex); mjpeg_broadcast(fb->buf, fb->len) is entered
CamPubGive ==
  /\ camPc = "PubGive"
  /\ g_jpg_mutex' = "free"
  /\ camPc' = "BcTake"
  /\ pre' = NoPre
  /\ pubRes' = "none"
  /\ UNCHANGED <<elapsed, fb, bi, cpy, captured, cacheV, regV, g_clients_mutex,
                 conn, netV, snapV, out, lastSend, published, cmdV, irV, moveV>>

\* mjpeg_broadcast: xSemaphoreTake(g_clients_mutex, 10 ms) succeeds
CamBcTake ==
  /\ camPc = "BcTake"
  /\ g_clients_mutex = "free"
  /\ g_clients_mutex' = "cam"
  /\ bi' = 1
  /\ camPc' = "BcClean"
  /\ UNCHANGED <<elapsed, fb, cpy, captured, cacheV, g_jpg_mutex, regV,
                 conn, netV, snapV, out, lastSend, pubV, cmdV, irV, moveV>>

\* mjpeg_broadcast's timeout path going back to the top of the loop without
\* esp_camera_fb_return
CamBcTimeout_NoReturn ==
  /\ camPc = "BcTake"
  /\ g_clients_mutex # "free"
  /\ camPc' = "Loop"
  /\ lastSend' = [NoSend EXCEPT !.skipped = TRUE]
  /\ UNCHANGED <<elapsed, fb, bi, cpy, captured, cacheV, g_jpg_mutex, regV,
                 g_clients_mutex, conn, netV, snapV, out, pubV, cmdV, irV, moveV>>

\* mjpeg_broadcast going on into its loops although the take timed out
CamBcTimeout_Proceed ==
  /\ camPc = "BcTake"
  /\ g_clients_mutex # "free"
  /\ bi' = 1
  /\ camPc' = "BcClean"
  /\ lastSend' = [NoSend EXCEPT !.skipped = TRUE]
  /\ UNCHANGED <<elapsed, fb, cpy, captured, cacheV, g_jpg_mutex, regV,
                 g_clients_mutex, conn, netV, snapV, out, pubV, cmdV, irV, moveV>>

\* mjpeg_broadcast: the 10 ms wait runs out while a handler holds the mutex: return
CamBcTimeout ==
  /\ camPc = "BcTake"
  /\ g_clients_mutex # "free"
  /\ camPc' = "Return"
  /\ lastSend' = [NoSend EXCEPT !.skipped = TRUE]
  /\ UNCHANGED <<elapsed, fb, bi, cpy, captured, cacheV, g_jpg_mutex, regV,
                 g_clients_mutex, conn, netV, snapV, out, pubV, cmdV, irV, moveV>>

\* cleanup loop, one iteration: close(true), delete and erase a dead entry, else ++i
CamBcClean ==
  /\ camPc = "BcClean"
  /\ bi <= Len(g_clients)
  /\ \E alive \in ConnectedResults(g_clients[bi].c) :
       IF Dead(g_clients[bi].c, alive)
       THEN /\ heap' = IF g_clients[bi].c # NullH
                       THEN Delete(heap, g_clients[bi].c) ELSE heap
            /\ g_clients' = RemoveAt(g_clients, bi)
            /\ bi' = bi
       ELSE /\ bi' = bi + 1
            /\ UNCHANGED regV
  /\ UNCHANGED <<camPc, elapsed, fb, cpy, captured, cacheV, g_jpg_mutex,
                 g_clients_mutex, conn, netV, snapV, out, lastSend, pubV, cmdV, irV, moveV>>

\* cleanup loop ends (i == g_clients.size()); the send loop begins
CamBcCleanEnd ==
  /\ camPc = "BcClean"
  /\ bi > Len(g_clients)
  /\ bi' = 1
  /\ camPc' = "BcSend"
  /\ UNCHANGED <<elapsed, fb, cpy, captured, cacheV, g_jpg_mutex, regV,
                 g_clients_mutex, conn, netV, snapV, out, lastSend, pubV, cmdV, irV, moveV>>

\* send loop, one client: liveness check, one-time prologue, mjpeg_send_frame_to
CamBcSend ==
  /\ camPc = "BcSend"
  /\ bi <= Len(g_clients)
  /\ LET mc == g_clients[bi]
         h  == mc.c
     IN \E alive \in ConnectedResults(h), alive2 \in ConnectedResults(h),
           sp \in SpaceLevels :
          IF h = NullH \/ ~alive
          THEN /\ lastSend' = [NoSend EXCEPT !.dead = lastSend.dead \cup ({h} \ {NullH})]
               /\ UNCHANGED <<regV, out>>
          ELSE LET pro == PrologueWrites(mc.headerSent, sp)
                   sp2 == IF mc.headerSent THEN sp
                          ELSE sp - Accepted(PrologueLen, sp)
                   fw  == FrameWrites(alive2, fb, captured[fb].len, sp2)
               IN /\ g_clients' = [g_clients EXCEPT ![bi].headerSent = TRUE]
                  /\ out' = IF heap[h] = "live"
                            THEN [out EXCEPT ![ConnOf(h)] = @ \o pro \o fw]
                            ELSE out
                  /\ lastSend' = [k |-> ConnOf(h), f |-> fb,
                                  live |-> heap[h] = "live",
                                  space |-> sp2, wrote |-> fw,
                                  dead |-> lastSend.dead, skipped |-> FALSE]
                  /\ UNCHANGED heap
  /\ bi' = bi + 1
  /\ UNCHANGED <<camPc, elapsed, fb, cpy, captured, cacheV, g_jpg_mutex,
                 g_clients_mutex, conn, netV, snapV, pubV, cmdV, irV, moveV>>

\* the pass returning without xSemaphoreGive(g_clients_mutex)
CamBcGive_NoGive ==
  /\ camPc = "BcSend"
  /\ bi > Len(g_clients)
  /\ bi' = 0
  /\ lastSend' = NoSend
  /\ camPc' = "Return"
  /\ UNCHANGED <<elapsed, fb, cpy, captured, cacheV, g_jpg_mutex, regV,
                 g_clients_mutex, conn, netV, snapV, out, pubV, cmdV, irV, moveV>>

\* send loop ends: xSemaphoreGive(g_clients_mutex)
CamBcGive ==
  /\ camPc = "BcSend"
  /\ bi > Len(g_clients)
  /\ g_clients_mutex' = "free"
  /\ bi' = 0
  /\ lastSend' = NoSend
  /\ camPc' = "Return"
  /\ UNCHANGED <<elapsed, fb, cpy, captured, cacheV, g_jpg_mutex, regV,
                 conn, netV, snapV, out, pubV, cmdV, irV, moveV>>

\* the loop body broadcasting the frame it holds once more instead of returning it
CamReturn_Rebroadcast ==
  /\ camPc = "Return"
  /\ IF fb > 0
     THEN camPc' = "BcTake" /\ fb' = fb
     ELSE camPc' = "Loop" /\ fb' = 0
  /\ lastSend' = NoSend
  /\ UNCHANGED <<elapsed, bi, cpy, captured, cacheV, g_jpg_mutex, regV,
                 g_clients_mutex, conn, netV, snapV, out, pubV, cmdV, irV, moveV>>

\* esp_camera_fb_return(fb)
CamReturn ==
  /\ camPc = "Return"
  /\ fb' = 0
  /\ camPc' = "Loop"
  /\ lastSend' = NoSend
  /\ UNCHANGED <<elapsed, bi, cpy, captured, cacheV, g_jpg_mutex, regV,
                 g_clients_mutex, conn, netV, snapV, out, pubV, cmdV, irV, moveV>>

CameraStep ==
  \/ CamRateLimit \/ CamTickStart \/ CamGetNone \/ CamGetFrame \/ CamGetOther
  \/ CamPubTake \/ CamPubFree \/ CamPubMallocOk \/ CamPubMallocFail
  \/ CamPubCopy \/ CamPubLen \/ CamPubGive
  \/ CamBcTake \/ CamBcTimeout \/ CamBcClean \/ CamBcCleanEnd
  \/ CamBcSend \/ CamBcGive \/ CamReturn

\* ------------------------------------------------------- async network task
\* Handlers run one at a time, to completion, on the network task; each step below
\* interleaves with the steps of cameraTask.

\* The next connection to arrive: connections are numbered in arrival order.
NextConn(k) == conn[k] = "none" /\ \A j \in Conns : j < k => conn[j] # "none"

\* The AsyncClient* the library may hand to the onDisconnect callback of connection
\* k: the callback is registered on request->client() before that object is copied
\* into the registry, so the request's client and its copy both carry it.
CallbackArgs(k) ==
  {Orig(k)} \cup (IF heap[Clone(k)] # "none" THEN {Clone(k)} ELSE {})

\* /mjpeg handler: setNoDelay, onDisconnect registered, and the 50 ms take succeeds
NetAcceptLock ==
  /\ netPc = "Idle"
  /\ g_clients_mutex = "free"
  /\ \E k \in Conns :
       /\ NextConn(k)
       /\ conn' = [conn EXCEPT ![k] = "open"]
       /\ heap' = [heap EXCEPT ![Orig(k)] = "live"]
       /\ netC' = Orig(k)
  /\ g_clients_mutex' = "net"
  /\ netPc' = "AcceptAdd"
  /\ UNCHANGED <<camV, captured, cacheV, g_jpg_mutex, g_clients, snapV, out,
                 lastSend, pubV, cmdV, irV, moveV>>

\* /mjpeg handler: the 50 ms take runs out while a broadcast pass holds the mutex;
\* the handler returns without adding the client
NetAcceptTimeout ==
  /\ netPc = "Idle"
  /\ g_clients_mutex # "free"
  /\ \E k \in Conns :
       /\ NextConn(k)
       /\ conn' = [conn EXCEPT ![k] = "open"]
       /\ heap' = [heap EXCEPT ![Orig(k)] = "live"]
  /\ UNCHANGED <<camV, captured, cacheV, g_jpg_mutex, g_clients, g_clients_mutex,
                 netV, snapV, out, lastSend, pubV, cmdV, irV, moveV>>

\* the /mjpeg handler returning after emplace_back without
\* xSemaphoreGive(g_clients_mutex)
NetAcceptAdd_NoGive ==
  /\ netPc = "AcceptAdd"
  /\ heap' = [heap EXCEPT ![Clone(ConnOf(netC))] = "live"]
  /\ g_clients' = Append(g_clients, [c |-> Clone(ConnOf(netC)), headerSent |-> FALSE])
  /\ netPc' = "Idle"
  /\ netC' = NullH
  /\ UNCHANGED <<camV, captured, cacheV, g_jpg_mutex, g_clients_mutex, conn, snapV,
                 out, lastSend, pubV, cmdV, irV, moveV>>

\* g_clients.emplace_back(new AsyncClient(*client)); xSemaphoreGive(g_clients_mutex)
NetAcceptAdd ==
  /\ netPc = "AcceptAdd"
  /\ heap' = [heap EXCEPT ![Clone(ConnOf(netC))] = "live"]
  /\ g_clients' = Append(g_clients, [c |-> Clone(ConnOf(netC)), headerSent |-> FALSE])
  /\ g_clients_mutex' = "free"
  /\ netPc' = "Idle"
  /\ netC' = NullH
  /\ UNCHANGED <<camV, captured, cacheV, g_jpg_mutex, conn, snapV, out,
                 lastSend, pubV, cmdV, irV, moveV>>

\* The peer closes connection k, or the link drops: the callback becomes due.
ConnClose ==
  /\ \E k \in Conns :
       /\ conn[k] = "open"
       /\ conn' = [conn EXCEPT ![k] = "closing"]
  /\ UNCHANGED <<camV, captured, cacheV, g_jpg_mutex, regV, g_clients_mutex,
                 netV, snapV, out, lastSend, pubV, cmdV, irV, moveV>>

\* onDisconnect callback: the 50 ms take succeeds
NetCbLock ==
  /\ netPc = "Idle"
  /\ g_clients_mutex = "free"
  /\ \E k \in Conns :
       /\ conn[k] = "closing"
       /\ conn' = [conn EXCEPT ![k] = "closed"]
       /\ \E c \in CallbackArgs(k) : netC' = c
  /\ g_clients_mutex' = "net"
  /\ netPc' = "CbScan"
  /\ UNCHANGED <<camV, captured, cacheV, g_jpg_mutex, regV, snapV, out,
                 lastSend, pubV, cmdV, irV, moveV>>

\* onDisconnect callback, else branch: the take ran out; c->close(true); delete c
NetCbTimeout ==
  /\ netPc = "Idle"
  /\ g_clients_mutex # "free"
  /\ \E k \in Conns :
       /\ conn[k] = "closing"
       /\ conn' = [conn EXCEPT ![k] = "closed"]
       /\ \E c \in CallbackArgs(k) : heap' = Delete(heap, c)
  /\ UNCHANGED <<camV, captured, cacheV, g_jpg_mutex, g_clients, g_clients_mutex,
                 netV, snapV, out, lastSend, pubV, cmdV, irV, moveV>>

\* the index of the first entry of the registry whose c is h, 0 if none
FindClient(clients, h) ==
  IF \E i \in 1..Len(clients) : clients[i].c = h
  THEN CHOOSE i \in 1..Len(clients) :
         /\ clients[i].c = h
         /\ \A j \in 1..(i - 1) : clients[j].c # h
  ELSE 0

\* onDisconnect callback under the mutex: the first entry with g_clients[i].c == c
\* is closed, deleted and erased; then xSemaphoreGive
NetCbScan ==
  /\ netPc = "CbScan"
  /\ LET i == FindClient(g_clients, netC)
     IN IF i # 0
        THEN /\ heap' = Delete(heap, netC)
             /\ g_clients' = RemoveAt(g_clients, i)
        ELSE UNCHANGED regV
  /\ g_clients_mutex' = "free"
  /\ netPc' = "Idle"
  /\ netC' = NullH
  /\ UNCHANGED <<camV, captured, cacheV, g_jpg_mutex, conn, snapV, out,
                 lastSend, pubV, cmdV, irV, moveV>>

\* handle_jpg -> copy_last_jpg: xSemaphoreTake(g_jpg_mutex, 10 ms) succeeds; then
\* if (g_last_jpg && g_last_jpg_len > 0) out.resize(g_last_jpg_len); else the mutex
\* is given back, copy_last_jpg returns false and handle_jpg goes on to capture
NetSnapTake ==
  /\ netPc = "Idle"
  /\ g_jpg_mutex = "free"
  /\ IF g_last_jpg # Null /\ g_last_jpg_len > 0
     THEN /\ snapOut' = [i \in 1..g_last_jpg_len |-> Junk]
          /\ snapI' = 1
          /\ g_jpg_mutex' = "net"
          /\ netPc' = "SnapCopy"
     ELSE /\ netPc' = "SnapGet"
          /\ UNCHANGED <<snapOut, snapI, g_jpg_mutex>>
  /\ snapOk' = FALSE
  /\ UNCHANGED <<camV, captured, cacheV, regV, g_clients_mutex, conn, netC,
                 snapFb, snapResp, out, lastSend, pubV, cmdV, irV, moveV>>

\* copy_last_jpg: the 10 ms take runs out while cameraTask publishes: it returns
\* false and handle_jpg goes on to capture
NetSnapTimeout ==
  /\ netPc = "Idle"
  /\ g_jpg_mutex # "free"
  /\ snapOk' = FALSE
  /\ netPc' = "SnapGet"
  /\ UNCHANGED <<camV, captured, cacheV, g_jpg_mutex, regV, g_clients_mutex, conn,
                 netC, snapOut, snapI, snapFb, snapResp, out, lastSend, pubV, cmdV, irV, moveV>>

\* what memcpy reads at g_last_jpg[i]: outside live storage the read is undefined
ReadJpg(i) ==
  IF g_last_jpg # Null /\ i <= Len(g_last_jpg) THEN {g_last_jpg[i]} ELSE {Junk}

\* memcpy(out.data(), g_last_jpg, g_last_jpg_len), one byte a step; then ok = true,
\* xSemaphoreGive, and handle_jpg sends the copy as image/jpeg
NetSnapCopy ==
  /\ netPc = "SnapCopy"
  /\ \E b \in ReadJpg(snapI) : snapOut' = [snapOut EXCEPT ![snapI] = b]
  /\ IF snapI < Len(snapOut)
     THEN /\ snapI' = snapI + 1
          /\ UNCHANGED <<netPc, snapOk, snapResp, g_jpg_mutex>>
     ELSE /\ snapI' = 0
          /\ snapOk' = TRUE
          /\ snapResp' = 200
          /\ g_jpg_mutex' = "free"
          /\ netPc' = "SnapDone"
  /\ UNCHANGED <<camV, captured, cacheV, regV, g_clients_mutex, conn, netC,
                 snapFb, out, lastSend, pubV, cmdV, irV, moveV>>

\* handle_jpg: esp_camera_fb_get() returns NULL: request->send(503, ..., "camera busy")
NetSnapGetNone ==
  /\ netPc = "SnapGet"
  /\ snapResp' = 503
  /\ netPc' = "SnapDone"
  /\ UNCHANGED <<camV, captured, cacheV, g_jpg_mutex, regV, g_clients_mutex, conn,
                 netC, snapOut, snapOk, snapI, snapFb, out, lastSend, pubV, cmdV, irV, moveV>>

\* handle_jpg: esp_camera_fb_get() returns a frame of its own
NetSnapGetFrame ==
  /\ netPc = "SnapGet"
  /\ snapFb' = TRUE
  /\ netPc' = "SnapFb"
  /\ UNCHANGED <<camV, captured, cacheV, g_jpg_mutex, regV, g_clients_mutex, conn,
                 netC, snapOut, snapOk, snapI, snapResp, out, lastSend, pubV, cmdV, irV, moveV>>

\* handle_jpg: res->write(fb->buf, fb->len); request->send(res); esp_camera_fb_return(fb)
NetSnapReturn ==
  /\ netPc = "SnapFb"
  /\ snapResp' = 200
  /\ snapFb' = FALSE
  /\ netPc' = "SnapDone"
  /\ UNCHANGED <<camV, captured, cacheV, g_jpg_mutex, regV, g_clients_mutex, conn,
                 netC, snapOut, snapOk, snapI, out, lastSend, pubV, cmdV, irV, moveV>>

\* handle_jpg returns: the response has been sent, the locals die
NetSnapDone ==
  /\ netPc = "SnapDone"
  /\ snapOut' = <<>>
  /\ snapOk' = FALSE
  /\ snapResp' = 0
  /\ netPc' = "Idle"
  /\ UNCHANGED <<camV, captured, cacheV, g_jpg_mutex, regV, g_clients_mutex, conn,
                 netC, snapI, snapFb, out, lastSend, pubV, cmdV, irV, moveV>>

NetStep ==
  \/ NetAcceptLock \/ NetAcceptTimeout \/ NetAcceptAdd
  \/ NetCbLock \/ NetCbTimeout \/ NetCbScan
  \/ NetSnapTake \/ NetSnapTimeout \/ NetSnapCopy
  \/ NetSnapGetNone \/ NetSnapGetFrame \/ NetSnapReturn \/ NetSnapDone

Next == CameraStep \/ NetStep \/ ConnClose

Spec == Init /\ [][Next]_vars

\* ------------------------------------------------------------------ liveness
\* Connections accepted in the runs checked for liveness.
LiveConns == 1

LiveNext == Next /\ \A k \in Conns : k > LiveConns => conn'[k] = "none"

\* A handler that has started runs on: whoever holds a mutex releases it.
NetRunning == netPc # "Idle" /\ NetStep

\* cameraTask is scheduled whenever it can run and gets g_jpg_mutex when it is
\* given back often enough; the sensor keeps delivering JPEG frames.
Fairness ==
  /\ WF_vars(CameraStep)
  /\ SF_vars(CamPubTake)
  /\ SF_vars(CamGetFrame)
  /\ WF_vars(NetRunning)

LiveSpec == Init /\ [][LiveNext]_vars /\ Fairness

\* ---------------------------------------------------------- command gateway
\* The /cmd handlers also run on the async network task. They share no state with
\* cameraTask or with the MJPEG handlers, so their runs are taken on their own.

\* The motion tags and speeds clients put into a command.
MotionTags == {"Forward", "Left", "Stop", "stop_it", "Sideways"}
Speeds == {-1, 90, 255, 999}

\* the members of a command object: "M"/"m" with a tag, "v"/"V" with a speed
MotionFields ==
  {<<>>} \cup {<<S(k), P(":"), S(m)>> : k \in {"M", "m"}, m \in MotionTags}
SpeedFields ==
  {<<>>} \cup {<<S(k), P(":"), N(v)>> : k \in {"v", "V"}, v \in Speeds}

\* a command object, with or without its closing brace
MkBody(mf, sf, closed) ==
  <<P("{")>> \o mf \o (IF mf # <<>> /\ sf # <<>> THEN <<P(",")>> ELSE <<>>) \o sf
    \o (IF closed THEN <<P("}")>> ELSE <<>>)

\* bodies that are no command object even with a closing brace added
Malformed ==
  { <<P("{"), S("M"), S("Left"), P("}")>>,
    <<P("{"), S("M"), P(":")>>,
    <<P("{"), S("M"), P(":"), S("Left"), P(","), P("}")>>,
    <<P("{"), P(":"), N(90), P("}")>>,
    <<P("}")>> }

Bodies ==
  {MkBody(mf, sf, c) : mf \in MotionFields, sf \in SpeedFields, c \in BOOLEAN}
    \cup Malformed

\* body->endsWith("}")
EndsWithBrace(b) == Len(b) > 0 /\ b[Len(b)] = P("}")

\* the body parsed as it arrived
RepairBody_Never(b) == b

\* if (!body->endsWith("}")) body->concat("}")
RepairBody(b) == IF EndsWithBrace(b) THEN b ELSE b \o <<P("}")>>

\* deserializeJson returning an error
ParseErr == [err |-> TRUE, obj |-> FALSE, mem |-> <<>>]

RECURSIVE ParseMembers(_, _, _)
\* deserializeJson inside an object, at the key that starts at token i: key, colon,
\* value, then a comma and the next member, or the closing brace. Input that ends
\* early is IncompleteInput, any other token InvalidInput.
ParseMembers(b, i, mem) ==
  IF i + 3 > Len(b) THEN ParseErr
  ELSE IF b[i].t # "s" \/ b[i + 1] # P(":") \/ b[i + 2].t = "p" THEN ParseErr
  ELSE LET m == (b[i].s :> b[i + 2]) @@ mem
       IN IF b[i + 3] = P("}") THEN [err |-> FALSE, obj |-> TRUE, mem |-> m]
          ELSE IF b[i + 3] = P(",") THEN ParseMembers(b, i + 4, m)
          ELSE ParseErr

\* DeserializationError err = deserializeJson(docIn, *body): the first JSON value of
\* the text; what follows it is not read.
DeserializeJson(b) ==
  IF b = <<>> THEN ParseErr
  ELSE IF b[1] = P("{")
       THEN IF Len(b) >= 2 /\ b[2] = P("}")
            THEN [err |-> FALSE, obj |-> TRUE, mem |-> <<>>]
            ELSE ParseMembers(b, 2, <<>>)
  ELSE IF b[1].t = "p" THEN ParseErr
  ELSE [err |-> FALSE, obj |-> FALSE, mem |-> <<>>]

\* docIn.containsKey(k)
ContainsKey(d, k) == d.obj /\ k \in DOMAIN d.mem

\* mVal: "M", else "m", else "Unknown"
MVal(d) ==
  IF ContainsKey(d, "M") THEN d.mem["M"].s
  ELSE IF ContainsKey(d, "m") THEN d.mem["m"].s
  ELSE "Unknown"

\* constrain(x, lo, hi)
Constrain(x, lo, hi) == IF x < lo THEN lo ELSE IF x > hi THEN hi ELSE x

\* vVal clamped to 0..255 only from above
VVal_NoFloor(d) ==
  LET raw == IF ContainsKey(d, "v") THEN d.mem["v"].n
             ELSE IF ContainsKey(d, "V") THEN d.mem["V"].n
             ELSE -1
  IN IF raw > 255 THEN 255 ELSE raw

\* vVal: "v", else "V", else -1; then constrain(vVal < 0 ? 0 : vVal, 0, 255)
VVal(d) ==
  LET raw == IF ContainsKey(d, "v") THEN d.mem["v"].n
             ELSE IF ContainsKey(d, "V") THEN d.mem["V"].n
             ELSE -1
  IN Constrain(IF raw < 0 THEN 0 ELSE raw, 0, 255)

\* the tag forwarded as it came
map_motion_Identity(m) == m

map_motion(m) ==
  IF m = "Forward" THEN "Forward"
  ELSE IF m = "Backward" THEN "Backward"
  ELSE IF m = "Left" THEN "Left"
  ELSE IF m = "Right" THEN "Right"
  ELSE IF m = "stop_it" \/ m = "Stop" THEN "Stop"
  ELSE "Unknown"

\* the test of err taken as never set
ParseFailed_Never(d) == FALSE

\* if (err) { request->send(400, ...); return; }
ParseFailed(d) == d.err

\* on_cmd_body(request, data, len, index, total): the chunk is appended to the
\* request's String; when the body is complete it is repaired, parsed, normalised,
\* forwarded with send_to_uno, recorded for /status and answered.
OnCmdBody(data, index, total) ==
  LET body == (IF index = 0 THEN <<>> ELSE tempObject.s) \o data
  IN IF index + Len(data) = total
     THEN LET fixed == RepairBody(body)
              docIn == DeserializeJson(fixed)
          IN IF ParseFailed(docIn)
             THEN /\ cmdResp' = 400
                  /\ tempObject' = [set |-> TRUE, s |-> fixed]
                  /\ UNCHANGED <<lastV, uartV>>
             ELSE /\ Serial1Last' = WireLine(map_motion(MVal(docIn)), VVal(docIn))
                  /\ Serial1Lines' = Serial1Lines + 1
                  /\ g_last_motion' = map_motion(MVal(docIn))
                  /\ g_last_speed' = VVal(docIn)
                  /\ g_last_cmd_ms' = now
                  /\ cmdResp' = 200
                  /\ tempObject' = NoTemp
     ELSE /\ tempObject' = [set |-> TRUE, s |-> body]
          /\ UNCHANGED <<lastV, uartV, cmdResp>>

netOther == <<camV, captured, cacheV, g_jpg_mutex, regV, g_clients_mutex, conn,
              netC, snapV, out, lastSend, pubV, irV, moveV>>

\* POST /cmd arrives: on_cmd_body is called with the first chunk (index == 0)
NetCmdFirst ==
  /\ netPc = "Idle"
  /\ Serial1Lines <= MaxCmds
  /\ \E b \in Bodies : \E len \in 1..Len(b) :
       /\ cmdIn' = b
       /\ cmdRest' = SubSeq(b, len + 1, Len(b))
       /\ OnCmdBody(SubSeq(b, 1, len), 0, Len(b))
       /\ netPc' = IF len = Len(b) THEN "CmdReq" ELSE "CmdBody"
  /\ UNCHANGED <<netOther, now>>

\* on_cmd_body is called with the rest of the body (index > 0)
NetCmdMore ==
  /\ netPc = "CmdBody"
  /\ OnCmdBody(cmdRest, Len(cmdIn) - Len(cmdRest), Len(cmdIn))
  /\ cmdRest' = <<>>
  /\ netPc' = "CmdReq"
  /\ UNCHANGED <<netOther, now, cmdIn>>

\* POST /cmd without a body: on_cmd_body is not called
NetCmdNoBody ==
  /\ netPc = "Idle"
  /\ netPc' = "CmdReq"
  /\ UNCHANGED <<netOther, cmdV>>

\* the onRequest handler of /cmd: if (!request->_tempObject) request->send(200, ...)
NetCmdRequest ==
  /\ netPc = "CmdReq"
  /\ cmdResp' = IF ~tempObject.set THEN 200 ELSE cmdResp
  /\ netPc' = "CmdEnd"
  /\ UNCHANGED <<netOther, lastV, now, uartV, tempObject, cmdRest, cmdIn>>

\* the answered request is destroyed, its _tempObject with it
NetCmdEnd ==
  /\ netPc = "CmdEnd"
  /\ netPc' = "Idle"
  /\ tempObject' = NoTemp
  /\ cmdIn' = <<>>
  /\ cmdResp' = 0
  /\ UNCHANGED <<netOther, lastV, now, uartV, cmdRest>>

\* millis() moves on
Tick ==
  /\ now < MaxClock
  /\ now' = now + 1
  /\ UNCHANGED <<camV, captured, cacheV, g_jpg_mutex, regV, g_clients_mutex, conn,
                 netV, snapV, out, lastSend, pubV, lastV, uartV, reqV, irV, moveV>>

CmdStep ==
  NetCmdFirst \/ NetCmdMore \/ NetCmdNoBody \/ NetCmdRequest \/ NetCmdEnd

CmdNext == CmdStep \/ Tick

CmdSpec == Init /\ [][CmdNext]_vars

\* ------------------------------------------------------------- IR receiver
\* The IR receiver of the UNO sketch: the timer interrupt handler fills
\* irparams.rawbuf, the sketch re-arms it with resume() and enableIRIn(). The
\* handler runs with interrupts off, so it is one step; the sketch's two stores in
\* resume() and enableIRIn() are separate steps, and the handler may run between
\* them. The board shares nothing with the ESP32-CAM.
USECPERTICK == 50
RAWBUF == 100
GAP_TICKS == 5000 \div USECPERTICK
STATE_IDLE == 2
STATE_MARK == 3
STATE_SPACE == 4
STATE_STOP == 5
MARK == 0
SPACE == 1
ERR == 0
DECODED == 1
NEC_BITS == 32

\* irparams.timer++ on the 16-bit counter. The handler only compares the counter with
\* GAP_TICKS, so the values above GAP_TICKS are kept as one, GAP_TICKS + 1; from
\* there the increment stays above GAP_TICKS or, at 65535, wraps to 0.
TimerTick(t) == IF t <= GAP_TICKS THEN {t + 1} ELSE {t, 0}

\* rawlen++ on a uint8_t
IncLen(len) == (len + 1) % 256

\* the handler going into its switch without the test of rawlen against RAWBUF
ForcedStop_Never(len, st) == st

\* if (irparams.rawlen >= RAWBUF) irparams.rcvstate = STATE_STOP;
ForcedStop(len, st) == IF len >= RAWBUF THEN STATE_STOP ELSE st

\* irparams.rawbuf[irparams.rawlen++] = irparams.timer; irparams.timer = 0;
\* irparams.rcvstate = st
Record(len, st) == [rcvstate |-> st, rawlen |-> IncLen(len), timer |-> 0, idx |-> len]

\* switch (irparams.rcvstate): what one run of the handler leaves in irparams, and
\* the index it stored at (-1: no store), for the pin level irdata, the incremented
\* counter t, and the state st and length len the switch is entered with
IsrSwitch(st, irdata, t, len) ==
  LET keep == [rcvstate |-> st, rawlen |-> len, timer |-> t, idx |-> -1]
  IN CASE st = STATE_IDLE ->
            IF irdata = MARK
            THEN IF t < GAP_TICKS THEN [keep EXCEPT !.timer = 0]
                 ELSE Record(0, STATE_MARK)
            ELSE keep
       [] st = STATE_MARK ->
            IF irdata = SPACE THEN Record(len, STATE_SPACE) ELSE keep
       [] st = STATE_SPACE ->
            IF irdata = MARK THEN Record(len, STATE_MARK)
            ELSE IF t > GAP_TICKS THEN [keep EXCEPT !.rcvstate = STATE_STOP]
                 ELSE keep
       [] st = STATE_STOP ->
            IF irdata = MARK THEN [keep EXCEPT !.timer = 0] ELSE keep
       [] OTHER -> keep

\* ISR(TIMER_INTR_NAME)
Isr ==
  /\ timerIntr
  /\ \E irdata \in {MARK, SPACE} : \E t \in TimerTick(timer) :
       LET r == IsrSwitch(ForcedStop(rawlen, rcvstate), irdata, t, rawlen)
       IN /\ rcvstate' = r.rcvstate
          /\ rawlen' = r.rawlen
          /\ timer' = r.timer
          /\ rawbufIdx' = r.idx
  /\ UNCHANGED <<espV, moveV, irPc, timerIntr, decV>>

\* resume(): irparams.rcvstate = STATE_IDLE
IrResume ==
  /\ irPc = "Run"
  /\ rcvstate' = STATE_IDLE
  /\ irPc' = "ResumeLen"
  /\ UNCHANGED <<espV, moveV, timerIntr, rawlen, timer, rawbufIdx, decV>>

\* resume(): irparams.rawlen = 0
IrResumeLen ==
  /\ irPc = "ResumeLen"
  /\ rawlen' = 0
  /\ irPc' = "Run"
  /\ UNCHANGED <<espV, moveV, timerIntr, rcvstate, timer, rawbufIdx, decV>>

\* enableIRIn(): cli(); TIMER_CONFIG_NORMAL(); TIMER_ENABLE_INTR; sei()
IrEnable ==
  /\ irPc = "Run"
  /\ timerIntr' = TRUE
  /\ irPc' = "EnableState"
  /\ UNCHANGED <<espV, moveV, rcvstate, rawlen, timer, rawbufIdx, decV>>

\* enableIRIn(): irparams.rcvstate = STATE_IDLE
IrEnableState ==
  /\ irPc = "EnableState"
  /\ rcvstate' = STATE_IDLE
  /\ irPc' = "EnableLen"
  /\ UNCHANGED <<espV, moveV, timerIntr, rawlen, timer, rawbufIdx, decV>>

\* enableIRIn(): irparams.rawlen = 0; pinMode(irparams.recvpin, INPUT)
IrEnableLen ==
  /\ irPc = "EnableLen"
  /\ rawlen' = 0
  /\ irPc' = "Run"
  /\ UNCHANGED <<espV, moveV, timerIntr, rcvstate, timer, rawbufIdx, decV>>

\* decodeNEC: the results it can have on a buffer of len entries, whatever the
\* timings in it: DECODED needs a repeat code (rawlen == 4) or at least
\* 2 * NEC_BITS + 4 entries
DecodeNEC(len) ==
  {FALSE} \cup (IF len = 4 \/ len >= 2 * NEC_BITS + 4 THEN {TRUE} ELSE {})

\* decodeHash: ERR if results->rawlen < 6, else DECODED
DecodeHash(len) == len >= 6

\* decode(): results->rawbuf = irparams.rawbuf; results->rawlen = irparams.rawlen
IrDecode ==
  /\ irPc = "Run"
  /\ resultsRawlen' = rawlen
  /\ decodeRet' = NoRet
  /\ irPc' = "DecodeCheck"
  /\ UNCHANGED <<espV, moveV, timerIntr, rcvstate, rawlen, timer, rawbufIdx>>

\* decode(): if (rcvstate != STATE_STOP) return ERR; if (decodeNEC(results)) return
\* DECODED; if (decodeHash(results)) return DECODED; resume() is entered and stores
\* irparams.rcvstate = STATE_IDLE
IrDecodeCheck ==
  /\ irPc = "DecodeCheck"
  /\ IF rcvstate # STATE_STOP
     THEN /\ decodeRet' = ERR
          /\ irPc' = "Run"
          /\ resultsRawlen' = 0
          /\ UNCHANGED rcvstate
     ELSE \E nec \in DecodeNEC(rawlen) :
            IF nec \/ DecodeHash(resultsRawlen)
            THEN /\ decodeRet' = DECODED
                 /\ irPc' = "Run"
                 /\ resultsRawlen' = 0
                 /\ UNCHANGED rcvstate
            ELSE /\ rcvstate' = STATE_IDLE
                 /\ irPc' = "DecodeResumeLen"
                 /\ UNCHANGED <<resultsRawlen, decodeRet>>
  /\ UNCHANGED <<espV, moveV, timerIntr, rawlen, timer, rawbufIdx>>

\* decode(): resume() stores irparams.rawlen = 0; return ERR
IrDecodeResumeLen ==
  /\ irPc = "DecodeResumeLen"
  /\ rawlen' = 0
  /\ decodeRet' = ERR
  /\ resultsRawlen' = 0
  /\ irPc' = "Run"
  /\ UNCHANGED <<espV, moveV, timerIntr, rcvstate, timer, rawbufIdx>>

IrNext ==
  \/ Isr \/ IrResume \/ IrResumeLen \/ IrEnable \/ IrEnableState \/ IrEnableLen
  \/ IrDecode \/ IrDecodeCheck \/ IrDecodeResumeLen

IrSpec == Init /\ [][IrNext]_vars

\* ------------------------------------------------------------ motor driver
\* The motor code of the UNO sketch: controlRobotMotion and
\* DeviceDriverSet_Motor::control. Nothing runs beside a call, so a call is one step.
DIR_FORWARD == 1
DIR_BACKWARD == 0
DIR_STOP == 3
CONTROL_ENABLE == 1
CONTROL_DISABLE == 0
SPEED_MAX == 255

Motions == {"FORWARD", "BACKWARD", "LEFT", "RIGHT", "LEFT_FORWARD", "LEFT_BACKWARD",
            "RIGHT_FORWARD", "RIGHT_BACKWARD", "STOP"}
\* the speeds callers pass (uint8_t)
MoveSpeeds == {0, 1, 2, 64, 128, 150, 200, SPEED_MAX}

\* An argument passed for a parameter of type boolean (Arduino.h: typedef bool
\* boolean): every value other than 0 converts to true
AsBoolean(x) == IF x = 0 THEN 0 ELSE 1

\* switch (direction) of control(): the case label the promoted boolean selects
CaseOf(direction) ==
  IF direction = DIR_FORWARD THEN "DIR_FORWARD"
  ELSE IF direction = DIR_BACKWARD THEN "DIR_BACKWARD"
  ELSE IF direction = DIR_STOP THEN "DIR_STOP"
  ELSE "default"

\* one switch of control(): the pins after it, for the direction pin in1 and the PWM
\* pin pwm of the motor
MotorSwitch(p, direction, speed, in1, pwm) ==
  CASE CaseOf(direction) = "DIR_FORWARD" ->
         [p EXCEPT ![in1] = "HIGH", ![pwm] = speed]
    [] CaseOf(direction) = "DIR_BACKWARD" ->
         [p EXCEPT ![in1] = "LOW", ![pwm] = speed]
    [] OTHER -> [p EXCEPT ![pwm] = 0, !.STBY = "LOW"]

\* DeviceDriverSet_Motor::control, called with the given argument values
Control(direction_A, speed_A, direction_B, speed_B, controlED) ==
  LET a == AsBoolean(direction_A)
      b == AsBoolean(direction_B)
  IN IF AsBoolean(controlED) = CONTROL_ENABLE
     THEN /\ pins' = MotorSwitch(
                       MotorSwitch([pins EXCEPT !.STBY = "HIGH"],
                                   a, speed_A, "AIN1", "PWMA"),
                       b, speed_B, "BIN1", "PWMB")
          /\ branch' = <<CaseOf(a), CaseOf(b)>>
     ELSE /\ pins' = [pins EXCEPT !.STBY = "LOW"]
          /\ branch' = <<NoBranch, NoBranch>>

\* controlRobotMotion(direction, speed)
ControlRobotMotion ==
  /\ \E direction \in Motions, speed \in MoveSpeeds :
       /\ moveCall' = [fn |-> "controlRobotMotion", motion |-> direction,
                       speed |-> speed]
       /\ CASE direction = "FORWARD" ->
                 Control(DIR_FORWARD, speed, DIR_FORWARD, speed, CONTROL_ENABLE)
            [] direction = "BACKWARD" ->
                 Control(DIR_BACKWARD, speed, DIR_BACKWARD, speed, CONTROL_ENABLE)
            [] direction = "LEFT" ->
                 Control(DIR_FORWARD, speed, DIR_BACKWARD, speed, CONTROL_ENABLE)
            [] direction = "RIGHT" ->
                 Control(DIR_BACKWARD, speed, DIR_FORWARD, speed, CONTROL_ENABLE)
            [] direction = "LEFT_FORWARD" ->
                 Control(DIR_FORWARD, speed, DIR_FORWARD, speed \div 2, CONTROL_ENABLE)
            [] direction = "LEFT_BACKWARD" ->
                 Control(DIR_BACKWARD, speed, DIR_BACKWARD, speed \div 2, CONTROL_ENABLE)
            [] direction = "RIGHT_FORWARD" ->
                 Control(DIR_FORWARD, speed \div 2, DIR_FORWARD, speed, CONTROL_ENABLE)
            [] direction = "RIGHT_BACKWARD" ->
                 Control(DIR_BACKWARD, speed \div 2, DIR_BACKWARD, speed, CONTROL_ENABLE)
            [] direction = "STOP" ->
                 Control(DIR_STOP, 0, DIR_STOP, 0, CONTROL_ENABLE)
  /\ UNCHANGED <<espV, irV>>

\* robotMotor.control(..., CONTROL_DISABLE), with any directions and speeds
ControlDisabled ==
  /\ \E da, db \in {DIR_FORWARD, DIR_BACKWARD, DIR_STOP}, sa, sb \in MoveSpeeds :
       Control(da, sa, db, sb, CONTROL_DISABLE)
  /\ moveCall' = [fn |-> "control", motion |-> "none", speed |-> 0]
  /\ UNCHANGED <<espV, irV>>

MoveNext == ControlRobotMotion \/ ControlDisabled

MoveSpec == Init /\ [][MoveNext]_vars

\* =================================================================== claims
InRegistry(h) == \E i \in 1..Len(g_clients) : g_clients[i].c = h
ConnInRegistry(k) == \E i \in 1..Len(g_clients) : ConnOf(g_clients[i].c) = k

\* C1: a disconnect seen by the onDisconnect callback and by the broadcast pass's
\* liveness check, in any interleaving (the callback's lock timeout included), ends
\* with the connection's registry handle released exactly once: it is never deleted
\* twice, and once its entry is gone and the callback has returned it has been
\* deleted once.
C1_OneRemovalOneRelease ==
  \A k \in Conns :
    /\ heap[Clone(k)] # "dfreed"
    /\ (conn[k] = "closed" /\ netPc = "Idle" /\ heap[Clone(k)] # "none"
          /\ ~InRegistry(Clone(k)))
       => heap[Clone(k)] = "freed"

\* C2: a snapshot (copy_last_jpg) that reports success holds exactly the bytes, in
\* full length, of one frame whose publish completed.
C2_SnapshotAtomic ==
  (netPc = "SnapDone" /\ snapOk)
    => \E f \in published : snapOut = FrameBytes(f, captured[f].len)

\* C2 witness: a successful snapshot of a longest frame taken after two publishes.
C2_Witness ==
  /\ netPc = "SnapDone"
  /\ snapOk
  /\ Cardinality(published) >= 2
  /\ Len(snapOut) = MaxFrameLen

\* C3: the registry never holds two entries for one connection, and the disconnect
\* callback of a connection that has no entry changes neither the registry nor any
\* AsyncClient object.
C3_NoDupAbsentNoop ==
  /\ [](\A i, j \in 1..Len(g_clients) :
          ConnOf(g_clients[i].c) = ConnOf(g_clients[j].c) => i = j)
  /\ [][\A k \in Conns :
          (~ConnInRegistry(k)
             /\ \/ conn[k] = "closing" /\ conn'[k] = "closed"
                \/ netPc = "CbScan" /\ ConnOf(netC) = k /\ netPc' = "Idle")
          => UNCHANGED <<g_clients, heap>>]_vars

\* The writes of a log that belong to frame units (everything but the prologue).
UnitPart(log) == SelectSeq(log, LAMBDA w : w[1] # "pro")
\* What a step appended to the log of connection k.
Added(k) == SubSeq(out'[k], Len(out[k]) + 1, Len(out'[k]))
\* A client turn of the send loop of mjpeg_broadcast.
ClientTurn == camPc = "BcSend" /\ bi' = bi + 1

\* C4: in a client's turn of a broadcast pass, if the space the connection reports
\* is smaller than header + payload + 2-byte trailer, no byte of the frame unit is
\* written to it; if the unit fits, header, payload and trailer are written in full,
\* in that order.
C4_SkipOrWholeUnit ==
  [][(ClientTurn /\ lastSend'.live)
       => LET k == lastSend'.k
              L == captured[fb].len
          IN IF lastSend'.space < HdrLen(L) + L + TrailerLen
             THEN UnitPart(Added(k)) = <<>>
             ELSE UnitPart(Added(k)) =
                    << <<"hdr", fb, HdrLen(L)>>, <<"jpg", fb, L>>,
                       <<"crlf", fb, TrailerLen>> >>]_vars

\* C4 witness: a client whose first turn left no room for the frame (only part of
\* the prologue went out) has just been sent a later frame in full.
C4_Witness ==
  /\ lastSend.live
  /\ lastSend.wrote # <<>>
  /\ lastSend.f > 1
  /\ out[lastSend.k][1][1] = "pro"
  /\ out[lastSend.k][1][3] < PrologueLen
  /\ Len(out[lastSend.k]) = 4

\* C5: every client is sent the complete stream prologue exactly once, and before
\* any frame unit.
C5_PrologueOnceFirst ==
  \A k \in Conns :
    /\ Cardinality({i \in 1..Len(out[k]) : out[k][i][1] = "pro"}) <= 1
    /\ (out[k] # <<>> /\ UnitPart(out[k]) # <<>>)
         => out[k][1] = <<"pro", 0, PrologueLen>>

\* C6: when malloc fails in the publish section, the cache still holds the frame it
\* held before the publish began (same buffer, same length).
C6_AllocFailKeepsFrame ==
  (camPc = "PubGive" /\ pubRes = "nomem")
    => (g_last_jpg = pre.buf /\ g_last_jpg_len = pre.len)

\* C7: once a first frame has been published, the cache holds a valid frame at
\* every step, the steps of a later publish included.
C7_AlwaysValidFrame ==
  published # {} => (g_last_jpg # Null /\ g_last_jpg_len > 0)

\* C8: neither frame-cache operation can be held up at g_jpg_mutex: a capture task
\* that has a frame to publish always has a step (take the mutex, or give up the
\* publish when the wait runs out), and so does a snapshot request.
C8_BoundedLockWait ==
  /\ camPc = "PubTake" => ENABLED CameraStep
  /\ netPc = "Idle" => ENABLED (NetSnapTake \/ NetSnapTimeout)

C9_CaptureKeepsPublishing ==
  \A f \in 1..MaxFrames :
    /\ <>(f \in published \/ (fb = f /\ pubRes = "nomem"))
    /\ (fb = f) ~> (fb # f)

\* C9 witness: every frame was published while a registered client of an open
\* connection never had room for a single frame unit.
C9_Witness ==
  /\ published = 1..MaxFrames
  /\ camPc = "Loop"
  /\ \E k \in Conns :
       /\ conn[k] = "open"
       /\ \E i \in 1..Len(g_clients) :
            g_clients[i].c = Clone(k) /\ g_clients[i].headerSent
       /\ UnitPart(out[k]) = <<>>

\* C11: the frame units a client is sent are in capture order: of two units written
\* to one connection the earlier one carries the earlier captured frame (frames may
\* be missing, none is repeated or out of order), and a unit's header, payload and
\* trailer belong to one frame.
C11_CaptureOrder ==
  \A k \in Conns :
    LET u == UnitPart(out[k])
    IN /\ \A i, j \in 1..Len(u) :
            (i < j /\ u[i][1] = "hdr" /\ u[j][1] = "hdr") => u[i][2] < u[j][2]
       /\ \A i \in 1..Len(u) :
            u[i][1] = "hdr" =>
              /\ i + 2 <= Len(u)
              /\ u[i + 1][1] = "jpg" /\ u[i + 1][2] = u[i][2]
              /\ u[i + 2][1] = "crlf" /\ u[i + 2][2] = u[i][2]

\* C11 witness: a client has been sent two frame units, and another client, attached
\* later or held back by its buffer, only the second frame.
C11_Witness ==
  \E k, j \in Conns :
    /\ Len(UnitPart(out[k])) = 6
    /\ Len(UnitPart(out[j])) = 3
    /\ UnitPart(out[j])[1][2] = 2

\* ------------------------------------------------------------ command gateway
\* The step in which on_cmd_body has the whole body.
BodyComplete == netPc \in {"Idle", "CmdBody"} /\ netPc' = "CmdReq" /\ cmdIn' # <<>>

\* C12: a command whose body fails to parse is answered with 400, writes nothing to
\* Serial1 and leaves g_last_motion, g_last_speed and g_last_cmd_ms as they were;
\* the request's onRequest handler does not turn the answer into an ok.
C12_BadBodyRejected ==
  /\ [][(BodyComplete
          /\ (cmdIn' \in Malformed \/ DeserializeJson(RepairBody(cmdIn')).err))
        => (cmdResp' = 400 /\ UNCHANGED <<lastV, uartV>>)]_vars
  /\ []((netPc = "CmdEnd" /\ cmdIn \in Malformed) => cmdResp = 400)

\* C12 witness: a malformed body has been answered with 400 after an earlier command
\* changed the recorded state, which is still that command's.
C12_Witness ==
  /\ netPc = "CmdEnd"
  /\ cmdIn \in Malformed
  /\ cmdResp = 400
  /\ g_last_motion = "Left"
  /\ g_last_speed = 90
  /\ now > g_last_cmd_ms

\* The speed a client supplied, clamped to 0..255; 0 when it supplied none.
Clamped(sf) ==
  IF sf = <<>> THEN 0
  ELSE IF sf[3].n < 0 THEN 0 ELSE IF sf[3].n > 255 THEN 255 ELSE sf[3].n
Recognised == {"Forward", "Backward", "Left", "Right", "Stop", "stop_it"}

\* C13: for every command object, with any of the key spellings, the speed recorded
\* and the speed forwarded are the supplied speed clamped to 0..255, 0 if there is no
\* speed member; a motion tag outside the recognised set (or no tag) is recorded and
\* forwarded as "Unknown"; and the command is answered with 200.
C13_Normalised ==
  \A mf \in MotionFields, sf \in SpeedFields, c \in BOOLEAN :
    (netPc \in {"CmdReq", "CmdEnd"} /\ cmdIn = MkBody(mf, sf, c)) =>
      /\ cmdResp = 200
      /\ g_last_speed = Clamped(sf)
      /\ Serial1Last[8] = N(Clamped(sf))
      /\ (mf = <<>> \/ mf[3].s \notin Recognised) =>
           (g_last_motion = "Unknown" /\ Serial1Last[4] = S("Unknown"))
      /\ (mf # <<>> /\ mf[3].s \in Recognised) => g_last_motion # "Unknown"

\* C13 witness: {"M":"Sideways","v":999} has been accepted as Unknown at speed 255.
C13_Witness ==
  /\ netPc = "CmdEnd"
  /\ cmdIn = MkBody(<<S("M"), P(":"), S("Sideways")>>, <<S("v"), P(":"), N(999)>>, TRUE)
  /\ cmdResp = 200
  /\ g_last_speed = 255
  /\ g_last_motion = "Unknown"

\* C14: LastCommandState starts as Stop at speed 0; it changes only in the step of
\* the command handler that accepts a command; what it holds is always the pair in
\* the last line written to Serial1; its speed is within 0..255 and its motion one
\* of Forward, Backward, Left, Right, Stop, Unknown.
C14_LastCommandState ==
  /\ g_last_motion = "Stop" /\ g_last_speed = 0
  /\ [](/\ g_last_speed \in 0..255
        /\ g_last_motion \in {"Forward", "Backward", "Left", "Right", "Stop", "Unknown"}
        /\ LET line == DeserializeJson(Serial1Last)
           IN /\ ~line.err
              /\ line.mem["M"] = S(g_last_motion)
              /\ line.mem["v"] = N(g_last_speed))
  /\ [][(lastV' # lastV \/ uartV' # uartV)
          => (BodyComplete /\ cmdResp' = 200 /\ Serial1Lines' = Serial1Lines + 1)]_vars

\* C14 witness: two commands were accepted, the second one later than the first.
C14_Witness ==
  /\ Serial1Lines = 1 + MaxCmds
  /\ g_last_motion = "Forward"
  /\ g_last_speed = 255
  /\ g_last_cmd_ms = MaxClock
  /\ netPc = "Idle"

\* What a complete body gives when it is parsed as it stands.
CmdOutcome(b) ==
  LET d == DeserializeJson(b)
  IN IF d.err THEN [resp |-> 400, motion |-> "", speed |-> 0]
     ELSE [resp |-> 200, motion |-> map_motion(MVal(d)), speed |-> VVal(d)]
\* What the request in hand was answered and what was recorded for it.
CmdResult ==
  IF cmdResp = 200
  THEN [resp |-> 200, motion |-> g_last_motion, speed |-> g_last_speed]
  ELSE [resp |-> cmdResp, motion |-> "", speed |-> 0]

\* C16: a body that arrives without its closing brace is answered, forwarded and
\* recorded exactly as the same body with the brace would be, a command object
\* lacking only the brace being accepted; a body that ends with the brace is parsed
\* as it arrived.
C16_BraceRepair ==
  (netPc = "CmdReq" /\ cmdIn # <<>>) =>
    /\ ~EndsWithBrace(cmdIn) =>
         /\ CmdResult = CmdOutcome(cmdIn \o <<P("}")>>)
         /\ Serial1Last[Len(Serial1Last)] = P("\n")
    /\ \A mf \in MotionFields, sf \in SpeedFields :
         cmdIn = MkBody(mf, sf, FALSE) =>
           /\ cmdResp = 200
           /\ CmdResult = CmdOutcome(MkBody(mf, sf, TRUE))
           /\ Serial1Last = WireLine(CmdOutcome(MkBody(mf, sf, TRUE)).motion,
                                     CmdOutcome(MkBody(mf, sf, TRUE)).speed)
    /\ EndsWithBrace(cmdIn) =>
         /\ CmdResult = CmdOutcome(cmdIn)
         /\ tempObject.set => tempObject.s = cmdIn

\* C16 witness: {"m":"Left","V":90 arrived without its brace and was
\* accepted.
C16_Witness ==
  /\ netPc = "CmdReq"
  /\ cmdIn = MkBody(<<S("m"), P(":"), S("Left")>>, <<S("V"), P(":"), N(90)>>, FALSE)
  /\ cmdResp = 200
  /\ g_last_motion = "Left"
  /\ g_last_speed = 90
  /\ Serial1Lines = 2

\* The frame cache holds a frame.
Cached == g_last_jpg # Null /\ g_last_jpg_len > 0

\* C15: a /jpg request is answered with the cached frame whenever the cache holds
\* one and goes on to a capture of its own only when it holds none; when that
\* capture gives no frame the answer is 503; and the handler keeps no sensor buffer
\* once it has answered.
C15_SnapshotEndpoint ==
  /\ [][(netPc = "Idle" /\ netPc' \in {"SnapCopy", "SnapGet"})
          => (Cached <=> netPc' = "SnapCopy")]_vars
  /\ [][(netPc = "SnapGet" /\ netPc' = "SnapDone") => snapResp' = 503]_vars
  /\ []((netPc = "SnapDone" /\ snapOk) => snapResp = 200)
  /\ [](netPc \in {"Idle", "SnapDone"} => ~snapFb)

\* C17: no context holds g_jpg_mutex and g_clients_mutex together, and none asks for
\* one of them while it holds the other: cameraTask holds no registry lock when it
\* takes the frame lock and no frame lock when it takes the registry lock, and a
\* handler holds nothing when it starts.
C17_LocksNeverNested ==
  /\ ~(g_jpg_mutex = "cam" /\ g_clients_mutex = "cam")
  /\ ~(g_jpg_mutex = "net" /\ g_clients_mutex = "net")
  /\ camPc = "PubTake" => g_clients_mutex # "cam"
  /\ camPc = "BcTake" => g_jpg_mutex # "cam"
  /\ netPc \in {"Idle", "SnapGet"} => (g_jpg_mutex # "net" /\ g_clients_mutex # "net")

\* C17 witness: both mutexes are held, by different contexts: a snapshot copies under
\* g_jpg_mutex while a broadcast pass with a client holds g_clients_mutex.
C17_Witness ==
  /\ g_jpg_mutex = "net"
  /\ g_clients_mutex = "cam"
  /\ camPc = "BcSend"
  /\ g_clients # <<>>

\* A step that writes to a connection, or closes and deletes an AsyncClient.
IoStep == out' # out \/ \E h \in Handles : heap[h] # "none" /\ heap'[h] # heap[h]

\* C18: g_clients is changed (entry added, erased, headerSent set) only by the
\* context that holds g_clients_mutex, and no context writes to, sends on or closes a
\* connection while it holds that mutex.
C18_RegistryLockDiscipline ==
  [][/\ (g_clients' # g_clients /\ CameraStep) => g_clients_mutex = "cam"
     /\ (g_clients' # g_clients /\ NetStep) => g_clients_mutex = "net"
     /\ (IoStep /\ CameraStep) => g_clients_mutex # "cam"
     /\ (IoStep /\ NetStep) => g_clients_mutex # "net"]_vars

\* C19: no AsyncClient is used or deleted after it was deleted: every entry of
\* g_clients points to a live object, whatever the interleaving of broadcast passes
\* and disconnect callbacks (their lock-timeout branch included), and no object is
\* deleted twice.
C19_NoUseAfterRelease ==
  /\ \A i \in 1..Len(g_clients) :
       g_clients[i].c # NullH => heap[g_clients[i].c] = "live"
  /\ \A h \in Handles : heap[h] \in {"none", "live", "freed"}

\* The entries of g_clients that belong to connection k.
EntriesOf(clients, k) == {i \in 1..Len(clients) : ConnOf(clients[i].c) = k}

\* C20: when the /mjpeg handler of a new connection returns, whether or not
\* g_clients_mutex was free, the registry holds exactly one entry of that connection,
\* with headerSent false; and an entry is never in the registry before the
\* connection's disconnect callback is registered.
C20_AcceptRegisters ==
  /\ [][\A k \in Conns :
          (\/ conn[k] = "none" /\ conn'[k] = "open" /\ netPc' = "Idle"
           \/ netPc = "AcceptAdd" /\ ConnOf(netC) = k /\ netPc' = "Idle")
          => /\ Cardinality(EntriesOf(g_clients', k)) = 1
             /\ \A i \in EntriesOf(g_clients', k) : ~g_clients'[i].headerSent]_vars
  /\ [](\A k \in Conns : EntriesOf(g_clients, k) # {} => conn[k] # "none")

\* The step in which the onDisconnect callback of connection k returns.
CallbackReturns(k) ==
  \/ conn[k] = "closing" /\ conn'[k] = "closed" /\ netPc' = "Idle"
  \/ netPc = "CbScan" /\ ConnOf(netC) = k /\ netPc' = "Idle"

\* C21: when the disconnect callback of a registered connection returns, the
\* connection's entry is gone from g_clients and its AsyncClient has been closed and
\* deleted; so once the callback has run, no broadcast pass finds an entry of that
\* connection.
C21_CallbackRemoves ==
  /\ [][\A k \in Conns :
          (CallbackReturns(k) /\ ConnInRegistry(k))
          => (~ConnInRegistry(k)' /\ heap'[Clone(k)] = "freed")]_vars
  /\ [](\A k \in Conns :
          (conn[k] = "closed" /\ ~(netPc = "CbScan" /\ ConnOf(netC) = k))
          => ~ConnInRegistry(k))

\* The step in which a broadcast pass that held g_clients_mutex ends.
PassEnds == camPc = "BcSend" /\ camPc' = "Return"

\* C22: a broadcast pass writes nothing to a client whose connection reports
\* not-open; the pass removes such a client from g_clients and deletes its
\* AsyncClient once; and no client that the pass found dead is still in g_clients
\* when the pass gives the mutex back.
C22_DeadClientsRemoved ==
  [][/\ \A k \in Conns :
          (CameraStep /\ conn[k] # "open" /\ heap[Clone(k)] = "live")
          => out'[k] = out[k]
     /\ \A h \in Handles :
          (CameraStep /\ InRegistry(h) /\ ~InRegistry(h)')
          => (heap[h] = "live" /\ heap'[h] = "freed")
     /\ PassEnds => \A h \in lastSend.dead : ~InRegistry(h)]_vars

\* C23: for a JPEG frame the capture task goes through the publish section, then one
\* broadcast pass that writes units of that same frame only, then
\* esp_camera_fb_return; and on every path of a tick a buffer that was obtained is
\* held until that one return at the end of the loop body, and none is held (or
\* referred to) at the top of the loop.
C23_PublishBroadcastReturn ==
  /\ [](camPc \in {"Loop", "Get"} <=> fb = 0)
  /\ [][/\ (camPc # "BcTake" /\ camPc' = "BcTake")
             => /\ camPc = "PubGive"
                /\ fb \in 1..Len(captured) /\ fb' = fb
                /\ fb \in published \/ pubRes = "nomem"
                /\ pubRes = "ok"
                     => /\ g_last_jpg = FrameBytes(fb, captured[fb].len)
                        /\ g_last_jpg_len = captured[fb].len
        /\ (camPc \in {"PubFree", "PubMalloc", "PubCopy", "PubLen"}
              /\ camPc' # camPc)
             => camPc' \in {"PubMalloc", "PubCopy", "PubLen", "PubGive"}
        /\ (camPc \in {"BcClean", "BcSend"} /\ camPc' # camPc)
             => camPc' \in {"BcSend", "Return"}
        /\ ClientTurn
             => \A k \in Conns : \A i \in 1..Len(UnitPart(Added(k))) :
                  UnitPart(Added(k))[i][2] = fb
        /\ (camPc # "Return" /\ camPc' = "Return")
             => /\ camPc \in {"Get", "BcTake", "BcSend"}
                /\ fb' # 0
                /\ camPc = "Get" <=> fb' = OtherFb
        /\ fb' # fb
             => \/ fb = 0 /\ camPc = "Get"
                \/ fb' = 0 /\ camPc = "Return" /\ camPc' = "Loop"]_vars

\* C23 witness: the second frame has been published, broadcast to a client that was
\* also sent the first one, and its buffer has just been returned.
C23_Witness ==
  /\ camPc = "Loop" /\ fb = 0
  /\ published = 1..MaxFrames
  /\ g_last_jpg = FrameBytes(MaxFrames, captured[MaxFrames].len)
  /\ \E k \in Conns :
       \E i \in 1..Len(out[k]) : out[k][i][1] = "jpg" /\ out[k][i][2] = MaxFrames

\* A step of cameraTask out of the tick of a frame that is no JPEG, or of no frame.
DiscardStep ==
  \/ camPc = "Get" /\ camPc' # "Get" /\ fb' \notin 1..MaxFrames
  \/ fb = OtherFb /\ camPc' # camPc

\* C24: a tick whose frame is not JPEG changes neither the frame cache nor the
\* registry, runs no broadcast pass and writes to no client, and returns the buffer;
\* a tick with no frame likewise publishes and writes nothing, holds no buffer, and
\* goes back to the top of the loop, where the task can always go on.
C24_DiscardedTick ==
  /\ [](fb = OtherFb => camPc = "Return")
  /\ [](camPc = "Loop" => ENABLED (CamRateLimit \/ CamTickStart))
  /\ [][DiscardStep
          => /\ UNCHANGED <<g_last_jpg, g_last_jpg_len, published, g_clients,
                            heap, out, g_jpg_mutex, g_clients_mutex>>
             /\ fb' = OtherFb => camPc' = "Return"
             /\ fb' = 0 => camPc' = "Loop"
             /\ fb = OtherFb => fb' = 0]_vars

\* C24 witness: a frame of another format is about to be returned while a frame is
\* cached and a client that already got its prologue is registered and open.
C24_Witness ==
  /\ camPc = "Return" /\ fb = OtherFb
  /\ g_last_jpg # Null /\ published # {}
  /\ \E i \in 1..Len(g_clients) :
       /\ g_clients[i].headerSent
       /\ conn[ConnOf(g_clients[i].c)] = "open"

\* C25: the rate limit counts from the last successful capture: a tick that got no
\* frame leaves the interval expired, so the next attempt is due at once after the
\* backoff; and a capture is attempted only when the interval since the previous
\* one has run out.
C25_RateLimitFromLastCapture ==
  [][/\ (camPc = "Get" /\ camPc' = "Loop")
          => elapsed' >= CAPTURE_INTERVAL_MS
     /\ (camPc = "Loop" /\ camPc' = "Get")
          => elapsed >= CAPTURE_INTERVAL_MS]_vars

\* C26: when mjpeg_broadcast cannot take g_clients_mutex within its wait, it returns
\* at once: no entry of g_clients changes, no client is written to, no AsyncClient
\* is deleted, the mutex is left with its holder, and cameraTask goes on to return
\* the buffer; the task never stays blocked at the take.
C26_BroadcastSkipped ==
  /\ [](camPc = "BcTake" => ENABLED (CamBcTake \/ CamBcTimeout))
  /\ [](lastSend.skipped => (camPc = "Return" /\ fb \in 1..Len(captured)))
  /\ [][(camPc = "BcTake" /\ g_clients_mutex # "free" /\ camPc' # camPc)
          => /\ camPc' = "Return"
             /\ lastSend'.skipped
             /\ UNCHANGED <<g_clients, heap, out, g_clients_mutex, fb,
                            g_last_jpg, g_last_jpg_len>>]_vars

\* C26 witness: a pass has just been skipped while a handler held the mutex, with a
\* published frame in hand and an open client registered that already got its
\* prologue.
C26_Witness ==
  /\ lastSend.skipped
  /\ g_clients_mutex = "net"
  /\ fb \in published
  /\ \E i \in 1..Len(g_clients) :
       /\ g_clients[i].headerSent
       /\ conn[ConnOf(g_clients[i].c)] = "open"

\* C27: the prologue, like a frame unit, is written only when the connection has
\* room for all of it, so every prologue write is complete; an entry of a live
\* client whose headerSent is set has the whole prologue at the head of what its
\* connection accepted; and a connection that was sent a frame unit was sent the
\* whole prologue.
C27_PrologueChecked ==
  /\ \A k \in Conns : \A i \in 1..Len(out[k]) :
       out[k][i][1] = "pro" => out[k][i][3] = PrologueLen
  /\ \A i \in 1..Len(g_clients) :
       (g_clients[i].c # NullH /\ heap[g_clients[i].c] = "live"
          /\ g_clients[i].headerSent)
       => \E j \in 1..Len(out[ConnOf(g_clients[i].c)]) :
            out[ConnOf(g_clients[i].c)][j][1] = "pro"
  /\ \A k \in Conns :
       (\E i \in 1..Len(out[k]) : out[k][i][1] = "jpg")
       => \E j \in 1..Len(out[k]) : out[k][j][1] = "pro"

\* C28: there is no deadlock and no leaked lock: in every reachable state cameraTask
\* or the network task has a step, and each mutex is held by a context exactly while
\* that context is inside the section that took it (the publish section and
\* copy_last_jpg for g_jpg_mutex; the broadcast pass, the /mjpeg handler and the
\* disconnect callback for g_clients_mutex), so it is given back before the section
\* returns.
C28_NoDeadlockNoLeak ==
  /\ ENABLED CameraStep \/ ENABLED NetStep
  /\ g_jpg_mutex = "cam"
       <=> camPc \in {"PubFree", "PubMalloc", "PubCopy", "PubLen", "PubGive"}
  /\ g_jpg_mutex = "net" <=> netPc = "SnapCopy"
  /\ g_clients_mutex = "cam" <=> camPc \in {"BcClean", "BcSend"}
  /\ g_clients_mutex = "net" <=> netPc \in {"AcceptAdd", "CbScan"}

\* C28 witness: cameraTask waits at the take of g_jpg_mutex, which a snapshot holds,
\* right after a handler that held g_clients_mutex gave it back with a client added.
C28_Witness ==
  /\ camPc = "PubTake"
  /\ ~ENABLED CameraStep
  /\ g_jpg_mutex = "net"
  /\ g_clients_mutex = "free"
  /\ g_clients # <<>>

\* The frame captured last among the given ones.
MostRecent(frames) == CHOOSE f \in frames : \A g \in frames : g <= f

\* C29: whenever cameraTask is not inside its publish section, g_last_jpg and
\* g_last_jpg_len agree: either the pointer is null and the length 0, or the buffer
\* has exactly g_last_jpg_len bytes and they are the bytes of the frame published
\* last; and copy_last_jpg fails exactly when its take of g_jpg_mutex timed out or
\* the cache was empty, and otherwise succeeds.
C29_CacheConsistent ==
  /\ [](g_jpg_mutex # "cam"
          => \/ g_last_jpg = Null /\ g_last_jpg_len = 0
             \/ /\ g_last_jpg # Null
                /\ published # {}
                /\ g_last_jpg_len = captured[MostRecent(published)].len
                /\ g_last_jpg = FrameBytes(MostRecent(published), g_last_jpg_len))
  /\ [][/\ (netPc = "Idle" /\ netPc' = "SnapGet")
             <=> /\ netPc = "Idle" /\ netPc' \in {"SnapGet", "SnapCopy"}
                 /\ g_jpg_mutex # "free" \/ g_last_jpg = Null \/ g_last_jpg_len = 0
        /\ (netPc = "Idle" /\ netPc' = "SnapGet") => ~snapOk'
        /\ (netPc = "SnapCopy" /\ netPc' # "SnapCopy")
             => (snapOk' /\ g_jpg_mutex' = "free")]_vars

\* C29 witness: copy_last_jpg has just failed on an empty cache with the mutex free:
\* a frame had been published, and the publish of the next one freed it and then
\* got no memory.
C29_Witness ==
  /\ netPc = "SnapGet"
  /\ g_jpg_mutex = "free"
  /\ published # {}
  /\ g_last_jpg = Null /\ g_last_jpg_len = 0

\* C30: whatever timer interrupts, resume() and enableIRIn() calls there are, also
\* with the handler running between the two stores of a call, rawlen never exceeds
\* RAWBUF and the handler never stores at an index of rawbuf >= RAWBUF; with rawlen
\* at RAWBUF a run of the handler puts the receiver in STATE_STOP and stores
\* nothing, and rawlen leaves RAWBUF only by the reset to 0 that resume() does (and
\* enableIRIn(), with the same two stores).
C30_RawbufBounded ==
  /\ [](rawlen <= RAWBUF /\ rawbufIdx < RAWBUF)
  /\ [][/\ (Isr /\ rawlen = RAWBUF)
             => /\ rcvstate' = STATE_STOP
                /\ rawlen' = RAWBUF
                /\ rawbufIdx' = -1
        /\ (rawlen = RAWBUF /\ rawlen' # RAWBUF)
             => (rawlen' = 0
                   /\ irPc \in {"ResumeLen", "EnableLen", "DecodeResumeLen"})
        /\ rawbufIdx' # rawbufIdx
             => (rawbufIdx' = -1 \/ rawbufIdx' + 1 = rawlen')]_vars

\* C30 witness: the buffer is full; resume() has stored STATE_IDLE, and the handler,
\* running before resume() clears rawlen, has forced STATE_STOP again.
C30_Witness ==
  /\ rawlen = RAWBUF
  /\ rcvstate = STATE_STOP
  /\ irPc = "ResumeLen"

\* The step in which a call of IRrecv::decode returns.
DecodeReturns == decodeRet = NoRet /\ decodeRet' # NoRet

\* C31: IRrecv::decode returns DECODED only with the receiver in STATE_STOP, and
\* leaves it there; called with the receiver in another state it returns ERR and
\* changes neither rcvstate nor rawlen; called in STATE_STOP with both decoders
\* failing it returns ERR with the receiver reset, rcvstate STATE_IDLE and rawlen 0;
\* and after a DECODED the interrupt handler neither leaves STATE_STOP nor stores
\* into rawbuf, the state changing only by the sketch's reset.
C31_DecodeContract ==
  [][/\ (DecodeReturns /\ decodeRet' = DECODED)
          => (rcvstate = STATE_STOP /\ rcvstate' = STATE_STOP /\ rawlen' = rawlen)
     /\ (DecodeReturns /\ irPc = "DecodeCheck" /\ rcvstate # STATE_STOP)
          => (decodeRet' = ERR /\ rcvstate' = rcvstate /\ rawlen' = rawlen)
     /\ (DecodeReturns /\ irPc = "DecodeResumeLen")
          => (decodeRet' = ERR /\ rcvstate' = STATE_IDLE /\ rawlen' = 0)
     /\ (decodeRet = DECODED /\ rcvstate = STATE_STOP /\ Isr)
          => (rcvstate' = STATE_STOP /\ rawbufIdx' = -1 /\ rawlen' = rawlen)
     /\ (decodeRet = DECODED /\ rcvstate = STATE_STOP /\ rcvstate' # STATE_STOP)
          => (rcvstate' = STATE_IDLE /\ irPc \in {"Run", "EnableState"})]_vars

\* C32: controlRobotMotion(STOP, s) stops the car for every speed s: after it both
\* PWM outputs are 0 and the standby pin is LOW, control() having taken its DIR_STOP
\* case for both motors; and control() called with CONTROL_DISABLE writes LOW to the
\* standby pin and to no other pin.
C32_StopStops ==
  /\ []((moveCall.fn = "controlRobotMotion" /\ moveCall.motion = "STOP")
          => /\ pins.PWMA = 0 /\ pins.PWMB = 0
             /\ pins.STBY = "LOW"
             /\ branch = <<"DIR_STOP", "DIR_STOP">>)
  /\ [][moveCall'.fn = "control" => pins' = [pins EXCEPT !.STBY = "LOW"]]_vars

====
